---- MODULE Spec2Model ----
(***************************************************************************)
(* Sentiment-Dashboard backend: the POST /analyze handler (main.py), the   *)
(* CSV validator (utils.py) and the batch inference engine (models.py),    *)
(* run as coroutines on one asyncio event loop.                            *)
(*                                                                         *)
(* Text is a sequence of fragments (concatenation is \o), a file name is a *)
(* sequence of characters, a probability is an integer in per-mille, and a *)
(* quotient of two integers is the reduced fraction <<num, den>>.          *)
(***************************************************************************)
EXTENDS Integers, Sequences, FiniteSets, TLC

\* ------------------------------------------------------------------ bounds
NumRequests == 2
MaxRows == 4
ConcMaxRows == 3
MaxBatch == 3

Requests == 1..NumRequests

SeqUpTo(S, n) == UNION {[1..k -> S] : k \in 0..n}

\* ------------------------------------------------------------ file upload
CsvSuffix == <<".", "c", "s", "v">>

CsvName == <<"a", ".", "c", "s", "v">>
TxtName == <<"d", "a", "t", "a", ".", "t", "x", "t">>
NoDotName == <<"a", "c", "s", "v">>
UpperName == <<"a", ".", "C", "S", "V">>
FileNames == {CsvName, TxtName, NoDotName, UpperName}

\* str.endswith with a three-character pattern "csv" (the dot forgotten)
EndsWithNoDot(s, suffix) ==
    /\ Len(s) >= Len(suffix) - 1
    /\ SubSeq(s, Len(s) - Len(suffix) + 2, Len(s)) = SubSeq(suffix, 2, Len(suffix))

\* str.endswith
EndsWith(s, suffix) ==
    /\ Len(s) >= Len(suffix)
    /\ SubSeq(s, Len(s) - Len(suffix) + 1, Len(s)) = suffix

\* A cell of the parsed table: a text, or the missing value.
NaN == "NaN"
Cells == {NaN, "good", "bad"}
Texts == {"", "good", "bad"}

\* What the uploaded bytes are to pd.read_csv: undecodable or unparsable, or
\* a table with named columns whose rows hold the cells of its text column.
Malformed == [ok |-> FALSE, columns |-> {}, rows |-> <<>>]
Table(cols, rows) == [ok |-> TRUE, columns |-> cols, rows |-> rows]
ColumnSets == {{"review"}, {"text"}}

Contents(cells, n) ==
    {Malformed} \cup {Table(c, rows) : c \in ColumnSets, rows \in SeqUpTo(cells, n)}

Files == [filename : FileNames, content : Contents(Cells, MaxRows)]

\* Lists of texts in which any two neighbours differ.
Alternating(n) ==
    {[k \in 1..m |-> IF k % 2 = 1 THEN p[1] ELSE p[2]] :
        m \in 1..n, p \in {<<"good", "bad">>, <<"bad", "good">>}}

\* The uploads of the concurrent specification: every request path once, and
\* the short alternating lists of texts.
ConcFiles ==
    {[filename |-> TxtName, content |-> Malformed],
     [filename |-> CsvName, content |-> Malformed],
     [filename |-> CsvName, content |-> Table({"text"}, <<"good">>)]}
    \cup {[filename |-> CsvName, content |-> Table({"review"}, rows)] :
            rows \in Alternating(ConcMaxRows)}

NoFile == [filename |-> <<>>, content |-> Malformed]
NoDf == [columns |-> {}, rows |-> <<>>]

\* ------------------------------------------------------------- exceptions
HTTPException(code, detail) ==
    [type |-> "HTTPException", status_code |-> code, detail |-> detail]
ParserError ==
    [type |-> "ParserError", status_code |-> 0, detail |-> <<"Error tokenizing data">>]
ModelError ==
    [type |-> "RuntimeError", status_code |-> 0, detail |-> <<"CUDA out of memory">>]
ValueError ==
    [type |-> "ValueError", status_code |-> 0,
     detail |-> <<"Length of values does not match length of index">>]
ZeroDivisionError ==
    [type |-> "ZeroDivisionError", status_code |-> 0, detail |-> <<"division by zero">>]

\* str(e): starlette's HTTPException prints "<status_code>: <detail>".
Str(e) ==
    IF e.type = "HTTPException"
    THEN <<ToString(e.status_code), ": ">> \o e.detail
    ELSE e.detail

NoResponse == [status |-> 0, detail |-> <<>>]
ErrorResponse(e) == [status |-> e.status_code, detail |-> e.detail]

\* main.py:39: raised before the try block, so it reaches the framework.
RejectExtension == ErrorResponse(HTTPException(400, <<"Only CSV files are accepted">>))

\* main.py:89-91: `except Exception` catches every exception raised in the
\* try block, HTTPException included, and answers 500 with its text.
HandlerExcept(e) ==
    ErrorResponse(HTTPException(500, <<"Error processing CSV: ">> \o Str(e)))

\* ---------------------------------------------------------------- utils.py
None == "None"
MissingColumn == "CSV file must contain a 'review' column"
EmptyFile == "CSV file is empty"

\* DataFrame.empty: some axis has length 0
Empty(d) == d.columns = {} \/ Len(d.rows) = 0

\* the two checks in the other order
validate_csv_empty_first(d) ==
    IF Empty(d) THEN EmptyFile
    ELSE IF "review" \notin d.columns THEN MissingColumn
    ELSE None

validate_csv(d) ==
    IF "review" \notin d.columns THEN MissingColumn
    ELSE IF Empty(d) THEN EmptyFile
    ELSE None

\* pd.read_csv(io.StringIO(content.decode('utf-8')))
read_csv(content) == [columns |-> content.columns, rows |-> content.rows]

\* .fillna('').astype(str)
Fillna(c) == IF c = NaN THEN "" ELSE c
Clean(rows) == [k \in 1..Len(rows) |-> Fillna(rows[k])]

\* --------------------------------------------------------------- models.py
\* The pretrained classifier: the softmax posterior <<p(NEGATIVE), p(POSITIVE)>>
\* of each text, in per-mille.
Pretrained == [t \in Texts |->
    CASE t = "good" -> <<9, 991>>
      [] t = "bad"  -> <<950, 50>>
      [] OTHER      -> <<400, 600>>]

Min(a, b) == IF a <= b THEN a ELSE b

\* texts[i:i+batch_size-1]
SliceShort(s, i, n) == SubSeq(s, i + 1, Min(i + n - 1, Len(s)))

\* texts[i:i+batch_size]
Slice(s, i, n) == SubSeq(s, i + 1, Min(i + n, Len(s)))

\* a step of batch_size + 1
RangeStepSkip(i, n) == i + n + 1

\* range(0, len(texts), batch_size): the next index
RangeStep(i, n) == i + n

\* softmax(model(tokenizer(batch_texts)).logits): one row per text
Softmax(m, batch) == [k \in 1..Len(batch) |-> m[batch[k]]]

\* the row of the chunk's first text for every item
RowOfFirst(sc, j) == sc[1]

\* scores[j], j counted from 0
RowOf(sc, j) == sc[j + 1]

\* scores[j].argmax(): the first index of the maximum
Argmax(row) == IF row[1] >= row[2] THEN 0 ELSE 1

Label(sentiment_id) == IF sentiment_id = 0 THEN "NEGATIVE" ELSE "POSITIVE"

\* models.py:51-54
ResultItem(text, row) ==
    [text |-> text, label |-> Label(Argmax(row)), score |-> row[Argmax(row) + 1]]

\* one result list kept on the analyzer and shared by every call
AppendResultShared(res, r, item) == [q \in DOMAIN res |-> Append(res[q], item)]

\* results is a local of the call: results.append(...)
AppendResult(res, r, item) == [res EXCEPT ![r] = Append(@, item)]

\* analyze_batch run alone, from chunk start i with the results so far
RECURSIVE BatchFrom(_, _, _, _, _)
BatchFrom(m, txts, n, i, res) ==
    IF i >= Len(txts) THEN res
    ELSE LET batch == Slice(txts, i, n)
             sc == Softmax(m, batch)
             out == [k \in 1..Len(batch) |-> ResultItem(batch[k], RowOf(sc, k - 1))]
         IN BatchFrom(m, txts, n, RangeStep(i, n), res \o out)

analyze_batch(m, txts, n) == BatchFrom(m, txts, n, 0, <<>>)

\* ------------------------------------------------------------- aggregator
RECURSIVE GCD(_, _)
GCD(a, b) == IF b = 0 THEN a ELSE GCD(b, a % b)

\* a / b: ZeroDivisionError is the fraction with denominator 0
Divide(a, b) == IF b = 0 THEN <<0, 0>> ELSE <<a \div GCD(a, b), b \div GCD(a, b)>>
Zero == <<0, 1>>

RECURSIVE CountLabel(_, _)
CountLabel(res, label) ==
    IF res = <<>> THEN 0
    ELSE (IF Head(res).label = label THEN 1 ELSE 0) + CountLabel(Tail(res), label)

RECURSIVE SumScore(_, _)
SumScore(res, label) ==
    IF res = <<>> THEN 0
    ELSE (IF Head(res).label = label THEN Head(res).score ELSE 0)
         + SumScore(Tail(res), label)

\* the mean without the count > 0 guard
AvgScoreUnguarded(res, label) == Divide(SumScore(res, label), CountLabel(res, label))

\* main.py:62-69
AvgScore(res, label) ==
    IF CountLabel(res, label) > 0
    THEN Divide(SumScore(res, label), CountLabel(res, label))
    ELSE Zero

\* main.py:76-85
Summary(res) ==
    [positive_count |-> CountLabel(res, "POSITIVE"),
     negative_count |-> CountLabel(res, "NEGATIVE"),
     positive_avg_confidence |-> AvgScore(res, "POSITIVE"),
     negative_avg_confidence |-> AvgScore(res, "NEGATIVE"),
     total_reviews |-> Len(res)]

\* df['sentiment'], df['confidence'] and df.to_dict(orient='records')
Records(d, res) ==
    [k \in 1..Len(d.rows) |->
        [review |-> d.rows[k], sentiment |-> res[k].label, confidence |-> res[k].score]]

\* main.py:58-87, with the exceptions its statements raise
Respond(d, res) ==
    IF AvgScore(res, "POSITIVE")[2] = 0 \/ AvgScore(res, "NEGATIVE")[2] = 0
    THEN HandlerExcept(ZeroDivisionError)
    ELSE IF Len(res) # Len(d.rows)
    THEN HandlerExcept(ValueError)
    ELSE [status |-> 200, summary |-> Summary(res), reviews |-> Records(d, res)]

\* ------------------------------------------------------------------ state
VARIABLES
    batch_size,        \* SentimentAnalyzer.batch_size
    model,             \* SentimentAnalyzer.model with its tokenizer
    loop,              \* the request whose coroutine holds the event loop, or 0
    pc,                \* where each request's coroutine stands
    file,              \* the upload of each request
    df,                \* analyze_reviews: df
    validation_error,  \* analyze_reviews: validation_error
    texts,             \* analyze_batch: texts
    i,                 \* analyze_batch: i
    j,                 \* analyze_batch: j
    batch_texts,       \* analyze_batch: batch_texts
    scores,            \* analyze_batch: scores
    results,           \* analyze_batch: results
    log,               \* what each request did to the file, the classifier and the loop
    response           \* the HTTP response of each request

vars == <<batch_size, model, loop, pc, file, df, validation_error, texts, i, j,
          batch_texts, scores, results, log, response>>

locals == <<texts, i, j, batch_texts, scores, results>>

Event(op, chunk) == [op |-> op, chunk |-> chunk]

Init ==
    /\ batch_size \in 1..MaxBatch
    /\ model = Pretrained
    /\ loop = 0
    /\ pc = [r \in Requests |-> "idle"]
    /\ file = [r \in Requests |-> NoFile]
    /\ df = [r \in Requests |-> NoDf]
    /\ validation_error = [r \in Requests |-> None]
    /\ texts = [r \in Requests |-> <<>>]
    /\ i = [r \in Requests |-> 0]
    /\ j = [r \in Requests |-> 0]
    /\ batch_texts = [r \in Requests |-> <<>>]
    /\ scores = [r \in Requests |-> <<>>]
    /\ results = [r \in Requests |-> <<>>]
    /\ log = [r \in Requests |-> <<>>]
    /\ response = [r \in Requests |-> NoResponse]

\* ------------------------------------------------------- analyze_reviews
\* main.py:38-39: the request arrives with a name that is not *.csv
RejectUpload(r, files) ==
    /\ pc[r] = "idle" /\ loop = 0
    /\ \E f \in files :
        /\ ~EndsWith(f.filename, CsvSuffix)
        /\ file' = [file EXCEPT ![r] = f]
    /\ response' = [response EXCEPT ![r] = RejectExtension]
    /\ pc' = [pc EXCEPT ![r] = "done"]
    /\ UNCHANGED <<batch_size, model, loop, df, validation_error, locals, log>>

\* main.py:38-42: the request arrives and awaits file.read()
AcceptUpload(r, files) ==
    /\ pc[r] = "idle" /\ loop = 0
    /\ \E f \in files :
        /\ EndsWith(f.filename, CsvSuffix)
        /\ file' = [file EXCEPT ![r] = f]
    /\ log' = [log EXCEPT ![r] = Append(@, Event("read", <<>>))]
    /\ pc' = [pc EXCEPT ![r] = "reading"]
    /\ UNCHANGED <<batch_size, model, loop, df, validation_error, locals, response>>

\* main.py:45: the content does not decode or parse
ParseFails(r) ==
    /\ pc[r] = "reading" /\ loop = 0
    /\ ~file[r].content.ok
    /\ response' = [response EXCEPT ![r] = HandlerExcept(ParserError)]
    /\ pc' = [pc EXCEPT ![r] = "done"]
    /\ UNCHANGED <<batch_size, model, loop, file, df, validation_error, locals, log>>

\* main.py:45: the coroutine resumes and parses the content
Parse(r) ==
    /\ pc[r] = "reading" /\ loop = 0
    /\ file[r].content.ok
    /\ df' = [df EXCEPT ![r] = read_csv(file[r].content)]
    /\ loop' = r
    /\ pc' = [pc EXCEPT ![r] = "parsed"]
    /\ UNCHANGED <<batch_size, model, file, validation_error, locals, log, response>>

\* main.py:48
Validate(r) ==
    /\ pc[r] = "parsed" /\ loop = r
    /\ validation_error' = [validation_error EXCEPT ![r] = validate_csv(df[r])]
    /\ pc' = [pc EXCEPT ![r] = "validated"]
    /\ UNCHANGED <<batch_size, model, loop, file, df, locals, log, response>>

\* main.py:49-50 and 89-91: the HTTPException is raised inside the try block
ValidationFails(r) ==
    /\ pc[r] = "validated" /\ loop = r
    /\ validation_error[r] # None
    /\ response' = [response EXCEPT ![r] =
                        HandlerExcept(HTTPException(400, <<validation_error[r]>>))]
    /\ loop' = 0
    /\ pc' = [pc EXCEPT ![r] = "done"]
    /\ UNCHANGED <<batch_size, model, file, df, validation_error, locals, log>>

\* main.py:53-56 and models.py:37: clean the column and call analyze_batch
CallAnalyzeBatch(r) ==
    /\ pc[r] = "validated" /\ loop = r
    /\ validation_error[r] = None
    /\ df' = [df EXCEPT ![r].rows = Clean(@)]
    /\ texts' = [texts EXCEPT ![r] = Clean(df[r].rows)]
    /\ results' = [results EXCEPT ![r] = <<>>]
    /\ i' = [i EXCEPT ![r] = 0]
    /\ pc' = [pc EXCEPT ![r] = "loop"]
    /\ UNCHANGED <<batch_size, model, loop, file, validation_error, j, batch_texts,
                   scores, log, response>>

\* --------------------------------------------------------- analyze_batch
\* models.py:39-48: slice the next chunk and run the classifier over it
Classify(r) ==
    /\ pc[r] = "loop" /\ loop = r
    /\ i[r] < Len(texts[r])
    /\ batch_texts' = [batch_texts EXCEPT ![r] = Slice(texts[r], i[r], batch_size)]
    /\ scores' = [scores EXCEPT ![r] =
                      Softmax(model, Slice(texts[r], i[r], batch_size))]
    /\ j' = [j EXCEPT ![r] = 0]
    /\ log' = [log EXCEPT ![r] =
                   Append(@, Event("classify", Slice(texts[r], i[r], batch_size)))]
    /\ pc' = [pc EXCEPT ![r] = "append"]
    /\ UNCHANGED <<batch_size, model, loop, file, df, validation_error, texts, i,
                   results, response>>

\* the exception is caught in analyze_batch, which returns the results so far
ClassifierRaisesCaught(r) ==
    /\ pc[r] = "loop" /\ loop = r
    /\ i[r] < Len(texts[r])
    /\ log' = [log EXCEPT ![r] =
                   Append(@, Event("raise", Slice(texts[r], i[r], batch_size)))]
    /\ pc' = [pc EXCEPT ![r] = "returned"]
    /\ UNCHANGED <<batch_size, model, loop, file, df, validation_error, locals,
                   response>>

\* models.py:41-46 and main.py:89-91: the tokenizer or the model raises; nothing
\* in analyze_batch catches it, the handler's except clause does
ClassifierRaises(r) ==
    /\ pc[r] = "loop" /\ loop = r
    /\ i[r] < Len(texts[r])
    /\ log' = [log EXCEPT ![r] =
                   Append(@, Event("raise", Slice(texts[r], i[r], batch_size)))]
    /\ response' = [response EXCEPT ![r] = HandlerExcept(ModelError)]
    /\ loop' = 0
    /\ pc' = [pc EXCEPT ![r] = "done"]
    /\ UNCHANGED <<batch_size, model, file, df, validation_error, locals>>

\* an await inside the inner loop, after each item
AppendItemYielding(r) ==
    /\ pc[r] = "append" /\ loop \in {0, r}
    /\ j[r] < Len(batch_texts[r])
    /\ results' = AppendResult(results, r,
                      ResultItem(batch_texts[r][j[r] + 1], RowOf(scores[r], j[r])))
    /\ j' = [j EXCEPT ![r] = @ + 1]
    /\ log' = [log EXCEPT ![r] = Append(@, Event("append", <<>>))]
    /\ loop' = IF j[r] + 1 < Len(batch_texts[r]) THEN 0 ELSE r
    /\ UNCHANGED <<batch_size, model, pc, file, df, validation_error, texts, i,
                   batch_texts, scores, response>>

\* models.py:50-54: one iteration of the inner loop
AppendItem(r) ==
    /\ pc[r] = "append" /\ loop = r
    /\ j[r] < Len(batch_texts[r])
    /\ results' = AppendResult(results, r,
                      ResultItem(batch_texts[r][j[r] + 1], RowOf(scores[r], j[r])))
    /\ j' = [j EXCEPT ![r] = @ + 1]
    /\ log' = [log EXCEPT ![r] = Append(@, Event("append", <<>>))]
    /\ UNCHANGED <<batch_size, model, loop, pc, file, df, validation_error, texts, i,
                   batch_texts, scores, response>>

\* models.py:57: await asyncio.sleep(0.01) gives up the event loop
Sleep(r) ==
    /\ pc[r] = "append" /\ loop = r
    /\ j[r] = Len(batch_texts[r])
    /\ log' = [log EXCEPT ![r] = Append(@, Event("yield", <<>>))]
    /\ loop' = 0
    /\ pc' = [pc EXCEPT ![r] = "sleeping"]
    /\ UNCHANGED <<batch_size, model, file, df, validation_error, locals, response>>

\* models.py:57 and 39: the sleep is over, the loop goes to its next index
Wake(r) ==
    /\ pc[r] = "sleeping" /\ loop = 0
    /\ loop' = r
    /\ i' = [i EXCEPT ![r] = RangeStep(@, batch_size)]
    /\ pc' = [pc EXCEPT ![r] = "loop"]
    /\ UNCHANGED <<batch_size, model, file, df, validation_error, texts, j,
                   batch_texts, scores, results, log, response>>

\* models.py:59
Return(r) ==
    /\ pc[r] = "loop" /\ loop = r
    /\ i[r] >= Len(texts[r])
    /\ pc' = [pc EXCEPT ![r] = "returned"]
    /\ UNCHANGED <<batch_size, model, loop, file, df, validation_error, locals, log,
                   response>>

\* main.py:58-87: the summary and the response
Aggregate(r) ==
    /\ pc[r] = "returned" /\ loop = r
    /\ response' = [response EXCEPT ![r] = Respond(df[r], results[r])]
    /\ loop' = 0
    /\ pc' = [pc EXCEPT ![r] = "done"]
    /\ UNCHANGED <<batch_size, model, file, df, validation_error, locals, log>>

\* ---------------------------------------------------------- specifications
Handle(r, files) ==
    \/ RejectUpload(r, files)
    \/ AcceptUpload(r, files)
    \/ ParseFails(r)
    \/ Parse(r)
    \/ Validate(r)
    \/ ValidationFails(r)
    \/ CallAnalyzeBatch(r)
    \/ Classify(r)
    \/ ClassifierRaises(r)
    \/ AppendItem(r)
    \/ Sleep(r)
    \/ Wake(r)
    \/ Return(r)
    \/ Aggregate(r)

\* one request at a time, every upload
Next == Handle(1, Files)

Spec == Init /\ [][Next]_vars

\* overlapping requests on the one event loop
NextConcurrent == \E r \in Requests : Handle(r, ConcFiles)

SpecConcurrent == Init /\ [][NextConcurrent]_vars

\* ---------------------------------------------------------------- claims
IsCall(e) == e.op \in {"classify", "raise"}

\* the chunks handed to the classifier by request r, in invocation order
Chunks(r) ==
    LET calls == SelectSeq(log[r], IsCall)
    IN [k \in 1..Len(calls) |-> calls[k].chunk]

RECURSIVE Flatten(_)
Flatten(ss) == IF ss = <<>> THEN <<>> ELSE Head(ss) \o Flatten(Tail(ss))

LastOp(r) == IF log[r] = <<>> THEN "none" ELSE log[r][Len(log[r])].op

\* analyze_batch has returned its list to the handler
Returned(r) == pc[r] = "returned" \/ (pc[r] = "done" /\ LastOp(r) = "yield")

\* what the classifier gives for one text
Classification(t) ==
    LET p == Pretrained[t]
    IN IF p[2] > p[1]
       THEN [text |-> t, label |-> "POSITIVE", score |-> p[2]]
       ELSE [text |-> t, label |-> "NEGATIVE", score |-> p[1]]

\* C1: analyze_batch returns one result per text, and the result at each index
\* is the classification of the text at that index, wherever the chunks end.
C1_ResultsAligned ==
    \A r \in Requests :
        Returned(r) =>
            /\ Len(results[r]) = Len(texts[r])
            /\ \A k \in 1..Len(texts[r]) : results[r][k] = Classification(texts[r][k])

C1_Witness ==
    \E r \in Requests :
        /\ pc[r] = "returned"
        /\ texts[r] = <<"good", "bad", "", "bad">>
        /\ batch_size = 3
        /\ Len(Chunks(r)) = 2

\* C2: a .csv upload that parses and fails the validator is answered 400 with
\* the validator's message as detail.
C2_ValidationAnswers400 ==
    \A r \in Requests :
        (/\ pc[r] = "done"
         /\ file[r].filename = CsvName
         /\ file[r].content.ok
         /\ ("review" \notin file[r].content.columns \/ Len(file[r].content.rows) = 0))
        => /\ response[r].status = 400
           /\ response[r].detail =
                <<IF "review" \notin file[r].content.columns
                  THEN MissingColumn ELSE EmptyFile>>

\* C3: the chunks handed to the classifier, in order, are consecutive slices of
\* the input with no gap and no overlap; each has 1..batch_size items, each but
\* the last has batch_size items; on return they cover the whole input, one
\* invocation per chunk.
C3_ChunksPartition ==
    \A r \in Requests :
        LET cs == Chunks(r)
            flat == Flatten(cs)
        IN /\ Len(flat) <= Len(texts[r])
           /\ flat = SubSeq(texts[r], 1, Len(flat))
           /\ \A k \in 1..Len(cs) : Len(cs[k]) >= 1 /\ Len(cs[k]) <= batch_size
           /\ \A k \in 1..(Len(cs) - 1) : Len(cs[k]) = batch_size
           /\ Returned(r) =>
                /\ flat = texts[r]
                /\ (Len(cs) - 1) * batch_size < Len(texts[r])
                /\ Len(texts[r]) <= Len(cs) * batch_size

C3_Witness ==
    \E r \in Requests :
        /\ Returned(r)
        /\ Len(texts[r]) = 4
        /\ Chunks(r) = <<SubSeq(texts[r], 1, 3), SubSeq(texts[r], 4, 4)>>

\* C4: the list analyze_batch returns is the list it returns for the same
\* input under every other batch size, item by item.
C4_BatchSizeInvariance ==
    \A r \in Requests :
        Returned(r) =>
            \A b \in 1..(Len(texts[r]) + 1) :
                analyze_batch(model, texts[r], b) = results[r]

C4_Witness ==
    \E r \in Requests :
        /\ Returned(r)
        /\ Len(texts[r]) = 3
        /\ batch_size = 2
        /\ \E k \in 1..3 : results[r][k].label = "POSITIVE"
        /\ \E k \in 1..3 : results[r][k].label = "NEGATIVE"

Raised(r) == \E k \in 1..Len(log[r]) : log[r][k].op = "raise"

\* C5: once a classifier invocation has raised, analyze_batch returns nothing,
\* and the request ends with status 500 whose detail carries the exception's
\* text; no summary and no reviews list is answered.
C5_FailureIsAtomic ==
    \A r \in Requests :
        Raised(r) =>
            /\ pc[r] = "done"
            /\ response[r].status = 500
            /\ response[r].detail = <<"Error processing CSV: ">> \o Str(ModelError)
            /\ "summary" \notin DOMAIN response[r]
            /\ "reviews" \notin DOMAIN response[r]

C5_Witness ==
    \E r \in Requests :
        /\ Raised(r)
        /\ Len(Chunks(r)) = 3
        /\ Len(results[r]) = 2
        /\ response[r].status = 500

\* C6: whatever the interleaving, the results of a request are at any time a
\* prefix of, and on return equal to, the list it gets when it runs alone with
\* the model as loaded at startup; the model is never modified.
C6_Isolation ==
    /\ model = Pretrained
    /\ \A r \in Requests :
        LET alone == analyze_batch(Pretrained, texts[r], batch_size)
        IN /\ Len(results[r]) <= Len(alone)
           /\ results[r] = SubSeq(alone, 1, Len(results[r]))
           /\ Returned(r) => results[r] = alone

C6_Witness ==
    \E r, q \in Requests :
        /\ r # q
        /\ pc[r] = "returned"
        /\ Len(Chunks(r)) >= 2
        /\ pc[q] = "sleeping"
        /\ Len(Chunks(q)) >= 2
        /\ texts[q] # texts[r]

RECURSIVE SumConfidence(_, _)
SumConfidence(rv, sentiment) ==
    IF rv = <<>> THEN 0
    ELSE SumConfidence(Tail(rv), sentiment)
         + (IF Head(rv).sentiment = sentiment THEN Head(rv).confidence ELSE 0)

IsMean(avg, rv, sentiment) ==
    LET n == Cardinality({k \in 1..Len(rv) : rv[k].sentiment = sentiment})
    IN IF n = 0 THEN avg = <<0, 1>>
       ELSE avg[2] > 0 /\ avg[1] * n = avg[2] * SumConfidence(rv, sentiment)

\* C7: every request whose inference returned is answered 200 with a summary
\* of both counts and both averages; an average is the mean of the scores of
\* that label, and 0 when the label does not occur; total_reviews is the
\* number of results.
C7_Summary ==
    \A r \in Requests :
        (pc[r] = "done" /\ LastOp(r) = "yield") =>
            /\ response[r].status = 200
            /\ LET s == response[r].summary
                   rv == response[r].reviews
               IN /\ DOMAIN s = {"positive_count", "negative_count",
                                 "positive_avg_confidence", "negative_avg_confidence",
                                 "total_reviews"}
                  /\ s.positive_count =
                        Cardinality({k \in 1..Len(rv) : rv[k].sentiment = "POSITIVE"})
                  /\ s.negative_count =
                        Cardinality({k \in 1..Len(rv) : rv[k].sentiment = "NEGATIVE"})
                  /\ IsMean(s.positive_avg_confidence, rv, "POSITIVE")
                  /\ IsMean(s.negative_avg_confidence, rv, "NEGATIVE")
                  /\ s.total_reviews = Len(results[r])
                  /\ Len(rv) = Len(results[r])
                  /\ \A k \in 1..Len(rv) :
                        /\ rv[k].sentiment = results[r][k].label
                        /\ rv[k].confidence = results[r][k].score

C7_Witness ==
    \E r \in Requests :
        /\ pc[r] = "done"
        /\ response[r].status = 200
        /\ response[r].summary.negative_count = 0
        /\ response[r].summary.negative_avg_confidence = <<0, 1>>
        /\ response[r].summary.positive_count = 2
        /\ response[r].summary.positive_avg_confidence = <<1591, 2>>

\* C8: an upload whose name does not end in ".csv" is answered 400 at once:
\* its content is not read, parsed or validated, and the classifier is not run.
C8_ExtensionRejected ==
    \A r \in Requests :
        file[r].filename \in {TxtName, NoDotName, UpperName} =>
            /\ pc[r] = "done"
            /\ response[r] = [status |-> 400, detail |-> <<"Only CSV files are accepted">>]
            /\ log[r] = <<>>
            /\ df[r] = NoDf
            /\ texts[r] = <<>> /\ results[r] = <<>>

C8_Witness ==
    \E r \in Requests :
        /\ file[r].filename = NoDotName
        /\ file[r].content = Table({"review"}, <<"good", "bad">>)
        /\ response[r].status = 400

\* C9: after validation the error is the missing-column message when the
\* table has no 'review' column (with or without rows), the empty message when
\* it has the column and no row, and none otherwise; the table is as parsed.
C9_Validator ==
    \A r \in Requests :
        pc[r] = "validated" =>
            LET t == file[r].content
            IN /\ "review" \notin t.columns => validation_error[r] = MissingColumn
               /\ ("review" \in t.columns /\ Len(t.rows) = 0)
                    => validation_error[r] = EmptyFile
               /\ ("review" \in t.columns /\ Len(t.rows) >= 1)
                    => validation_error[r] = None
               /\ df[r] = [columns |-> t.columns, rows |-> t.rows]

C9_Witness ==
    \E r \in Requests :
        /\ pc[r] = "validated"
        /\ "review" \notin df[r].columns
        /\ df[r].rows = <<>>
        /\ validation_error[r] = MissingColumn

\* the log of one request: a yield between any two classifier invocations, and
\* after an invocation only appends until the chunk's last result is appended
YieldsBetweenChunks(l) ==
    /\ \A a, b \in 1..Len(l) :
        (a < b /\ IsCall(l[a]) /\ IsCall(l[b])) =>
            \E m \in (a + 1)..(b - 1) : l[m].op = "yield"
    /\ \A a \in 1..Len(l) :
        l[a].op = "classify" =>
            \A m \in 1..Len(l[a].chunk) :
                a + m <= Len(l) => l[a + m].op = "append"

MidChunk(r) == pc[r] = "append" /\ j[r] < Len(batch_texts[r])

OthersStand(r) ==
    \A q \in Requests \ {r} :
        /\ pc'[q] = pc[q] /\ file'[q] = file[q] /\ df'[q] = df[q]
        /\ results'[q] = results[q] /\ log'[q] = log[q]
        /\ response'[q] = response[q]

\* C10: within a call a yield separates any two classifier invocations, none
\* falls between an invocation and the append of its chunk's last result, and
\* while a chunk is half processed its request holds the event loop and no
\* other request takes a step.
C10_YieldsOnlyBetweenChunks ==
    /\ [](\A r \in Requests :
            /\ YieldsBetweenChunks(log[r])
            /\ MidChunk(r) => loop = r)
    /\ [][\A r \in Requests : MidChunk(r) => OthersStand(r)]_vars

C10_Witness ==
    \E r, q \in Requests :
        /\ r # q
        /\ pc[r] = "append" /\ j[r] = 1 /\ Len(batch_texts[r]) = 2
        /\ Len(texts[r]) = 3
        /\ pc[q] = "sleeping"
        /\ results[q] # <<>> /\ Len(results[q]) < Len(texts[q])

====
